---- MODULE Spec2Model ----
(***************************************************************************)
(* Model of bot/git_sync.py: the GitSync engine (debounced auto-commit     *)
(* loop, pull loop, manual flush, conflict pipeline), PendingMerge, and    *)
(* the conflict-marker text transformation (_parse_conflicts,              *)
(* _apply_resolutions).                                                    *)
(*                                                                         *)
(* Text is a sequence of tokens.  A token is either the newline "\n" or a  *)
(* non-empty newline-free piece of a line; the file is the concatenation   *)
(* of its tokens.  The three marker bodies are tokens of their own, so a   *)
(* marker can stand anywhere in a line, as the regular expressions of the  *)
(* source (which are not anchored to line starts) allow.                   *)
(***************************************************************************)
EXTENDS Integers, Sequences, FiniteSets, TLC

\* ------------------------------------------------------------------ text

LH == "<<<<<<< HEAD"
EQ == "======="
GT == ">>>>>>> "
NL == "\n"

Min(S) == CHOOSE x \in S : \A y \in S : x <= y

NoMatch == [ok |-> FALSE]

\* "=======\n" stands at index j
IsSepAt(c, j) == j + 1 <= Len(c) /\ c[j] = EQ /\ c[j + 1] = NL

\* ">>>>>>> [^\n]+" can start at index k
IsEndAt(c, k) == k + 1 <= Len(c) /\ c[k] = GT /\ c[k + 1] # NL

\* last index of the greedy [^\n]+ that starts at index s
LabelEnd(c, s) ==
  Min({e \in s..Len(c) : e = Len(c) \/ c[e + 1] = NL})

\* One attempt of the pattern at index i.  Both groups are lazy, so the
\* separator is the first "=======\n" after which an end marker follows, and
\* the end marker is the first one after that separator.  tailNL: the
\* pattern ends with \n? (the pattern of _apply_resolutions).
MatchAt(c, i, tailNL) ==
  IF ~(i + 1 <= Len(c) /\ c[i] = LH /\ c[i + 1] = NL) THEN NoMatch
  ELSE
    LET js == {j \in (i + 2)..Len(c) :
                 IsSepAt(c, j) /\ \E k \in (j + 2)..Len(c) : IsEndAt(c, k)}
    IN IF js = {} THEN NoMatch
       ELSE
         LET j == Min(js)
             k == Min({x \in (j + 2)..Len(c) : IsEndAt(c, x)})
             e == LabelEnd(c, k + 1)
             e2 == IF tailNL /\ e + 1 <= Len(c) /\ c[e + 1] = NL
                   THEN e + 1 ELSE e
         IN [ok |-> TRUE, start |-> i, end |-> e2,
             g1 |-> SubSeq(c, i + 2, j - 1),
             g2 |-> SubSeq(c, j + 2, k - 1)]

\* pattern.finditer(content): the matches from left to right, each search
\* resuming after the previous match.
RECURSIVE FindIterFrom(_, _, _)
FindIterFrom(c, pos, tailNL) ==
  LET starts == {i \in pos..Len(c) : MatchAt(c, i, tailNL).ok}
  IN IF starts = {} THEN <<>>
     ELSE LET m == MatchAt(c, Min(starts), tailNL)
          IN <<m>> \o FindIterFrom(c, m.end + 1, tailNL)

FindIter(c, tailNL) == FindIterFrom(c, 1, tailNL)

\* _parse_conflicts(content, file_path); ids are fresh (uuid4): firstId,
\* firstId + 1, ... stand for them.
ParseConflicts(content, file_path, firstId) ==
  LET ms == FindIter(content, FALSE)
  IN [i \in 1..Len(ms) |->
        [id |-> firstId + i - 1,
         file_path |-> file_path,
         block_index |-> i - 1,
         current |-> ms[i].g1,
         incoming |-> ms[i].g2]]

\* The loop of _apply_resolutions over reversed(matches) for one file:
\* n matches are still to be replaced, the n-th next.
RECURSIVE ReplaceFrom(_, _, _, _, _)
ReplaceFrom(content, ms, blocks, res, n) ==
  IF n = 0 THEN content
  ELSE
    LET block == blocks[n]
        chosen == IF res[block.id] = "current" THEN block.current
                  ELSE block.incoming
        m == ms[n]
    IN ReplaceFrom(SubSeq(content, 1, m.start - 1) \o chosen
                     \o SubSeq(content, m.end + 1, Len(content)),
                   ms, blocks, res, n - 1)

\* The body of the try of _apply_resolutions for one file: ok is FALSE when
\* blocks[idx] raises IndexError (more matches than blocks), and then the
\* file is not written.
ApplyToContent(content, blocks, res) ==
  LET ms == FindIter(content, TRUE)
  IN IF Len(ms) > Len(blocks) THEN [ok |-> FALSE, content |-> content]
     ELSE [ok |-> TRUE,
           content |-> ReplaceFrom(content, ms, blocks, res, Len(ms))]

\* ---------------------------------------------------------------- engine

VARIABLES
  dirty, note_count, error_callbacks, current_merge,  \* GitSync fields
  lock, waiters,          \* GitSync._lock: holder and FIFO of waiting tasks
  merges, next_id,        \* the PendingMerge objects created so far; uuid source
  worktree, unmerged,     \* the conflicted files _handle_conflicts works on, and
                          \* the paths git reports unmerged (forgotten on return)
  pc,                     \* position of sync_loop, pull_loop, push_now caller
  count, callbacks,       \* locals of sync_loop / _run_git
  nerr_i,                 \* loop index of _notify_error
  pending, apply_i,       \* locals of _handle_conflicts / _apply_resolutions
  push_result,            \* value returned by the last push_now
  ops,                    \* history: the commands issued since the latest lock
                          \* acquisition, and the outcome of its conflict wait
  total_marks,            \* history: mark_dirty calls so far
  snap_marks, batch,      \* history: total_marks at the latest snapshot, and
                          \* the mark_dirty calls that snapshot covers
  snap_cbs,               \* history: the callbacks snapshotted so far
  cb_calls,               \* history: invocations per registered error callback
  idle_ticks,             \* history: consecutive idle firings of the commit timer
  observe,                \* the histories recorded in this run; one that is
                          \* not recorded keeps its initial value
  t_phase, t_ctx, t_sides, t_content, t_blocks, t_res, t_out  \* text harness

engineVars == <<dirty, note_count, error_callbacks, current_merge, lock,
                waiters, merges, next_id, worktree, unmerged, pc, count,
                callbacks, nerr_i, pending, apply_i, push_result, ops,
                total_marks, snap_marks, batch, snap_cbs, cb_calls,
                idle_ticks, observe>>
textVars == <<t_phase, t_ctx, t_sides, t_content, t_blocks, t_res, t_out>>
vars == <<engineVars, textVars>>

MaxNotes == 2    \* mark_dirty calls in a run
MaxMerges == 2   \* PendingMerge objects created in a run

Procs == {"sync", "pull", "push"}
Paths == {"n1.md", "n2.md"}
Resolutions == {"current", "incoming"}

\* the positions inside the VCS command sequence of a cycle
CS == {"fetch", "merge", "hc_diff", "notify", "wait", "abort", "apply",
       "complete", "stage", "diff_cached", "commit", "push", "nerr"}

Rest(p) == IF p = "push" THEN "idle" ELSE "sleep"

\* CommitMessage with the plural chosen unconditionally
CommitMessagePlural(n) == "telegram: add " \o ToString(n) \o " notes"

\* f"telegram: add {note_count} note{'s' if note_count != 1 else ''}"
CommitMessage(n) ==
  "telegram: add " \o ToString(n) \o " note" \o (IF n # 1 THEN "s" ELSE "")

\* ---- the working trees a conflicting merge can leave behind

Blk(l, r) == <<LH, NL>> \o l \o <<EQ, NL>> \o r \o <<GT, "r", NL>>

OneBlock == <<"a", NL>> \o Blk(<<"a", NL>>, <<"b", NL>>) \o <<"b", NL>>
NoBlock == <<"a", NL>>

NoFiles == [f \in Paths |-> <<>>]

\* a tree: the unmerged paths in git's order, and their contents
ConflictTrees ==
  { [unmerged |-> <<"n1.md", "n2.md">>,
     files |-> [NoFiles EXCEPT !["n1.md"] = OneBlock, !["n2.md"] = OneBlock]],
    [unmerged |-> <<"n1.md">>, files |-> [NoFiles EXCEPT !["n1.md"] = NoBlock]],
    [unmerged |-> <<>>, files |-> NoFiles] }

\* blocks.extend(self._parse_conflicts(content, file_path)) over the files
RECURSIVE ParseAll(_, _, _)
ParseAll(paths, files, firstId) ==
  IF paths = <<>> THEN <<>>
  ELSE LET bs == ParseConflicts(files[Head(paths)], Head(paths), firstId)
       IN bs \o ParseAll(Tail(paths), files, firstId + Len(bs))

\* ---- PendingMerge

\* PendingMerge(blocks=blocks) with __post_init__
NewPendingMerge(blocks) ==
  [blocks |-> blocks,
   pending_ids |-> {blocks[i].id : i \in 1..Len(blocks)},
   resolutions |-> << >>,
   done |-> FALSE]

\* PMResolve with the choice recorded before the membership test
PMResolveRecordsFirst(m, block_id, resolution) ==
  LET rec == [m EXCEPT !.resolutions = (block_id :> resolution) @@ @]
  IN IF block_id \notin m.pending_ids THEN [ret |-> FALSE, merge |-> rec]
     ELSE LET rest == m.pending_ids \ {block_id}
          IN [ret |-> TRUE,
              merge |-> [rec EXCEPT !.pending_ids = rest,
                                    !.done = IF rest = {} THEN TRUE ELSE @]]

\* PMResolve with the event set by a rejected choice too
PMResolveDoneOnReject(m, block_id, resolution) ==
  IF block_id \notin m.pending_ids
  THEN [ret |-> FALSE, merge |-> [m EXCEPT !.done = TRUE]]
  ELSE LET rest == m.pending_ids \ {block_id}
       IN [ret |-> TRUE,
           merge |-> [m EXCEPT
                        !.resolutions = (block_id :> resolution) @@ @,
                        !.pending_ids = rest,
                        !.done = IF rest = {} THEN TRUE ELSE @]]

\* PMResolve with the event set by every accepted choice, not by the last one
PMResolveDoneEarly(m, block_id, resolution) ==
  IF block_id \notin m.pending_ids THEN [ret |-> FALSE, merge |-> m]
  ELSE [ret |-> TRUE,
        merge |-> [m EXCEPT !.resolutions = (block_id :> resolution) @@ @,
                            !.pending_ids = @ \ {block_id},
                            !.done = TRUE]]

\* PMResolve with the membership test made against the ids of the blocks, so
\* that a resolved block takes a second choice
PMResolveOverwrite(m, block_id, resolution) ==
  IF block_id \notin {m.blocks[i].id : i \in 1..Len(m.blocks)}
  THEN [ret |-> FALSE, merge |-> m]
  ELSE LET rest == m.pending_ids \ {block_id}
       IN [ret |-> TRUE,
           merge |-> [m EXCEPT
                        !.resolutions = (block_id :> resolution) @@ @,
                        !.pending_ids = rest,
                        !.done = IF rest = {} THEN TRUE ELSE @]]

\* PendingMerge.resolve: the returned value and the object afterwards
PMResolve(m, block_id, resolution) ==
  IF block_id \notin m.pending_ids THEN [ret |-> FALSE, merge |-> m]
  ELSE LET rest == m.pending_ids \ {block_id}
       IN [ret |-> TRUE,
           merge |-> [m EXCEPT
                        !.resolutions = (block_id :> resolution) @@ @,
                        !.pending_ids = rest,
                        !.done = IF rest = {} THEN TRUE ELSE @]]

\* a PendingMerge no reference is left to (garbage)
Dropped == [blocks |-> <<>>, pending_ids |-> {}, resolutions |-> << >>,
            done |-> FALSE]

\* the objects after the references cm (_current_merge) and pend (the
\* locals `pending`) are what is left: unreferenced ones are collected
Collect(ms, cm, pend) ==
  [i \in DOMAIN ms |->
     IF i = cm \/ \E p \in DOMAIN pend : pend[p] = i THEN ms[i] ELSE Dropped]

\* PendingMerge.get_resolution
GetResolution(m, block_id) ==
  IF block_id \in DOMAIN m.resolutions THEN m.resolutions[block_id]
  ELSE "current"

\* by_file of _apply_resolutions: the paths in order of their first block
RECURSIVE FileOrder(_)
FileOrder(blocks) ==
  IF blocks = <<>> THEN <<>>
  ELSE LET f == blocks[1].file_path
       IN <<f>> \o FileOrder(SelectSeq(Tail(blocks), LAMBDA b : b.file_path # f))

BlocksOf(blocks, f) == SelectSeq(blocks, LAMBDA b : b.file_path = f)

\* ---- initial state: GitSync.__init__, both loops asleep, no push_now

EngineInit ==
  /\ dirty = FALSE
  /\ note_count = 0
  /\ error_callbacks = <<>>
  /\ current_merge = 0
  /\ lock = "free"
  /\ waiters = <<>>
  /\ merges = <<>>
  /\ next_id = 1
  /\ worktree = NoFiles
  /\ unmerged = <<>>
  /\ pc = [p \in Procs |-> Rest(p)]
  /\ count = 0
  /\ callbacks = <<>>
  /\ nerr_i = 0
  /\ pending = [p \in Procs |-> 0]
  /\ apply_i = 0
  /\ push_result = <<>>
  /\ ops = <<>>
  /\ total_marks = 0
  /\ snap_marks = 0
  /\ batch = 0
  /\ snap_cbs = {}
  /\ cb_calls = << >>
  /\ idle_ticks = 0

TextOff ==
  /\ t_phase = "off"
  /\ t_ctx = <<>>
  /\ t_sides = <<>>
  /\ t_content = <<>>
  /\ t_blocks = <<>>
  /\ t_res = <<>>
  /\ t_out = <<>>

Init == EngineInit /\ TextOff /\ observe = {"ops"}

\* ---- helpers of the actions

\* the command op of p with its outcome res, which is kept when "result" is
\* recorded
LogRes(p, op, arg, res) ==
  ops' = IF "ops" \in observe
         THEN Append(ops, [p |-> p, op |-> op, arg |-> arg,
                           res |-> IF "result" \in observe THEN res ELSE ""])
         ELSE ops

Log(p, op, arg) == LogRes(p, op, arg, "")

\* leaving `async with self._lock`: asyncio.Lock.release wakes the first waiter
ReleaseFrom(ws) ==
  IF ws = <<>> THEN lock' = "free" /\ waiters' = ws
  ELSE lock' = Head(ws) /\ waiters' = Tail(ws)

\* the cycle of p is over: its locals go out of scope, the lock is released
EndCycle(p) ==
  /\ pc' = [pc EXCEPT ![p] = Rest(p)]
  /\ ReleaseFrom(waiters)
  /\ nerr_i' = IF p = "sync" THEN 0 ELSE nerr_i
  /\ count' = IF p = "sync" THEN 0 ELSE count
  /\ callbacks' = IF p = "sync" THEN <<>> ELSE callbacks

\* p goes on inside its cycle
Goto(p, label) ==
  /\ pc' = [pc EXCEPT ![p] = label]
  /\ UNCHANGED <<lock, waiters, nerr_i, count, callbacks>>

\* await self._notify_error(message, callbacks); return
StartNotify(p) ==
  IF callbacks = <<>> THEN EndCycle(p)
  ELSE /\ pc' = [pc EXCEPT ![p] = "nerr"]
       /\ nerr_i' = 1
       /\ UNCHANGED <<lock, waiters, count, callbacks>>

Returned(v) == IF "returned" \in observe THEN v ELSE push_result

\* PullReturn with _run_git not testing pull_ok: it stages after a failed pull
PullReturnSyncAnyway(p, ok) ==
  IF p = "pull" THEN EndCycle(p) /\ UNCHANGED push_result
  ELSE IF p = "push"
  THEN IF ok THEN Goto(p, "push") /\ UNCHANGED push_result
       ELSE /\ EndCycle(p)
            /\ push_result' = Returned(<<FALSE, "Git pull failed - cannot push.">>)
  ELSE Goto(p, "stage") /\ UNCHANGED push_result

\* PullReturn with push_now going on as _run_git does after its pull: to the
\* staging of all changes
PullReturnPushStages(p, ok) ==
  IF p = "pull" THEN EndCycle(p) /\ UNCHANGED push_result
  ELSE IF ok THEN Goto(p, "stage") /\ UNCHANGED push_result
  ELSE IF p = "push"
  THEN /\ EndCycle(p)
       /\ push_result' = Returned(<<FALSE, "Git pull failed - cannot push.">>)
  ELSE StartNotify(p) /\ UNCHANGED push_result

\* PullReturn with push_now not testing pull_ok: it pushes after a failed pull
PullReturnPushAnyway(p, ok) ==
  IF p = "pull" THEN EndCycle(p) /\ UNCHANGED push_result
  ELSE IF p = "push" THEN Goto(p, "push") /\ UNCHANGED push_result
  ELSE IF ok THEN Goto(p, "stage") /\ UNCHANGED push_result
       ELSE StartNotify(p) /\ UNCHANGED push_result

\* _run_pull returns ok to its caller: pull_loop, push_now or _run_git
PullReturn(p, ok) ==
  IF p = "pull" THEN EndCycle(p) /\ UNCHANGED push_result
  ELSE IF p = "push"
  THEN IF ok THEN Goto(p, "push") /\ UNCHANGED push_result
       ELSE /\ EndCycle(p)
            /\ push_result' = Returned(<<FALSE, "Git pull failed - cannot push.">>)
  ELSE IF ok THEN Goto(p, "stage") /\ UNCHANGED push_result
       ELSE StartNotify(p) /\ UNCHANGED push_result

\* Snapshot with dirty left set
SnapshotKeepsDirty ==
  [count |-> note_count, callbacks |-> error_callbacks,
   dirty |-> TRUE, note_count |-> 0, error_callbacks |-> <<>>]

\* Snapshot with the clearing of _error_callbacks left out
SnapshotKeepsCallbacks ==
  [count |-> note_count, callbacks |-> error_callbacks,
   dirty |-> FALSE, note_count |-> 0, error_callbacks |-> error_callbacks]

\* Snapshot with the reset of _note_count left out
SnapshotKeepsCounter ==
  [count |-> note_count, callbacks |-> error_callbacks,
   dirty |-> FALSE, note_count |-> note_count, error_callbacks |-> <<>>]

\* the snapshot of sync_loop: count, callbacks and the reset fields
Snapshot ==
  [count |-> note_count, callbacks |-> error_callbacks,
   dirty |-> FALSE, note_count |-> 0, error_callbacks |-> <<>>]

\* RunCycle with the snapshot taken by every path, not by sync_loop alone
RunCycleSnapshotsAlways(p, ws) ==
  /\ pc' = [pc EXCEPT ![p] = "fetch"]
  /\ lock' = p
  /\ waiters' = ws
  /\ ops' = <<>>
  /\ count' = Snapshot.count
  /\ callbacks' = Snapshot.callbacks
  /\ dirty' = Snapshot.dirty
  /\ note_count' = Snapshot.note_count
  /\ error_callbacks' = Snapshot.error_callbacks
  /\ snap_marks' = total_marks
  /\ batch' = total_marks - snap_marks
  /\ snap_cbs' = snap_cbs \cup
       {Snapshot.callbacks[i] : i \in 1..Len(Snapshot.callbacks)}
  /\ idle_ticks' = 0

\* The cycle of p starts, the lock being held by p and ws waiting: sync_loop
\* takes its snapshot and calls _run_git; every path then calls _run_pull,
\* which starts the fetch.
RunCycle(p, ws) ==
  /\ pc' = [pc EXCEPT ![p] = "fetch"]
  /\ lock' = p
  /\ waiters' = ws
  /\ ops' = <<>>
  /\ IF p = "sync"
     THEN /\ count' = Snapshot.count
          /\ callbacks' = Snapshot.callbacks
          /\ dirty' = Snapshot.dirty
          /\ note_count' = Snapshot.note_count
          /\ error_callbacks' = Snapshot.error_callbacks
          /\ snap_marks' = total_marks
          /\ batch' = total_marks - snap_marks
          /\ snap_cbs' = snap_cbs \cup
               {Snapshot.callbacks[i] : i \in 1..Len(Snapshot.callbacks)}
          /\ idle_ticks' = 0
     ELSE UNCHANGED <<dirty, note_count, error_callbacks, count, callbacks,
                      snap_marks, batch, snap_cbs, idle_ticks>>

\* The body of `async with self._lock` starts: sync_loop re-checks dirty and
\* leaves the block at once when it is False.
Enter(p, ws) ==
  IF p = "sync" /\ ~dirty
  THEN /\ pc' = [pc EXCEPT ![p] = Rest(p)]
       /\ ReleaseFrom(ws)
       /\ UNCHANGED <<dirty, note_count, error_callbacks, count, callbacks,
                      ops, snap_marks, batch, snap_cbs, idle_ticks>>
  ELSE RunCycle(p, ws)

\* Acquire with the lock not consulted: the body is entered at once
AcquireUnlocked(p) == Enter(p, waiters)

\* `async with self._lock` is reached: asyncio.Lock.acquire takes a free lock
\* at once and otherwise queues the task
Acquire(p) ==
  IF lock = "free" THEN Enter(p, waiters)
  ELSE /\ pc' = [pc EXCEPT ![p] = "lock_wait"]
       /\ waiters' = Append(waiters, p)
       /\ UNCHANGED <<lock, dirty, note_count, error_callbacks, count,
                      callbacks, ops, snap_marks, batch, snap_cbs, idle_ticks>>

\* ---- actions

\* MarkDirty counting only the calls that pass a callback
MarkDirtyCountsCallbacks(hasCb) ==
  /\ total_marks < MaxNotes
  /\ dirty' = TRUE
  /\ note_count' = IF hasCb THEN note_count + 1 ELSE note_count
  /\ total_marks' = total_marks + 1
  /\ IF hasCb
     THEN /\ error_callbacks' = Append(error_callbacks, total_marks + 1)
          /\ cb_calls' = ((total_marks + 1) :> 0) @@ cb_calls
     ELSE UNCHANGED <<error_callbacks, cb_calls>>
  /\ UNCHANGED <<current_merge, lock, waiters, merges, next_id, worktree,
                 unmerged, pc, count, callbacks, nerr_i, pending, apply_i,
                 push_result, ops, snap_marks, batch, snap_cbs, idle_ticks,
                 observe, textVars>>

\* MarkDirty made to take the lock: it is served only while the lock is free
MarkDirtyLocked(hasCb) ==
  /\ lock = "free"
  /\ total_marks < MaxNotes
  /\ dirty' = TRUE
  /\ note_count' = note_count + 1
  /\ total_marks' = total_marks + 1
  /\ IF hasCb
     THEN /\ error_callbacks' = Append(error_callbacks, total_marks + 1)
          /\ cb_calls' = ((total_marks + 1) :> 0) @@ cb_calls
     ELSE UNCHANGED <<error_callbacks, cb_calls>>
  /\ UNCHANGED <<current_merge, lock, waiters, merges, next_id, worktree,
                 unmerged, pc, count, callbacks, nerr_i, pending, apply_i,
                 push_result, ops, snap_marks, batch, snap_cbs, idle_ticks,
                 observe, textVars>>

\* GitSync.mark_dirty(on_error): hasCb says whether on_error is given; the
\* callback registered by the k-th call is named k
MarkDirty(hasCb) ==
  /\ total_marks < MaxNotes
  /\ dirty' = TRUE
  /\ note_count' = note_count + 1
  /\ total_marks' = total_marks + 1
  /\ IF hasCb
     THEN /\ error_callbacks' = Append(error_callbacks, total_marks + 1)
          /\ cb_calls' = ((total_marks + 1) :> 0) @@ cb_calls
     ELSE UNCHANGED <<error_callbacks, cb_calls>>
  /\ UNCHANGED <<current_merge, lock, waiters, merges, next_id, worktree,
                 unmerged, pc, count, callbacks, nerr_i, pending, apply_i,
                 push_result, ops, snap_marks, batch, snap_cbs, idle_ticks,
                 observe, textVars>>

\* GitSync.resolve_conflict_block(block_id, resolution) in the current
\* state: the value it returns and the PendingMerge objects afterwards
ResolveResult(block_id, resolution) ==
  IF current_merge = 0 THEN [ret |-> FALSE, merges |-> merges]
  ELSE LET r == PMResolve(merges[current_merge], block_id, resolution)
       IN [ret |-> r.ret,
           merges |-> [merges EXCEPT ![current_merge] = r.merge]]

\* a call of resolve_conflict_block that returns ret
ResolveReturns(block_id, resolution, ret) ==
  /\ ret = ResolveResult(block_id, resolution).ret
  /\ merges' = ResolveResult(block_id, resolution).merges
  /\ UNCHANGED <<dirty, note_count, error_callbacks, current_merge, lock,
                 waiters, next_id, worktree, unmerged, pc, count, callbacks,
                 nerr_i, pending, apply_i, push_result, ops, total_marks,
                 snap_marks, batch, snap_cbs, cb_calls, idle_ticks, observe,
                 textVars>>

ResolveConflictBlock(block_id, resolution) ==
  \E ret \in BOOLEAN : ResolveReturns(block_id, resolution, ret)

\* sync_loop: the sleep ends and dirty is False
SyncIdleTick ==
  /\ pc["sync"] = "sleep"
  /\ ~dirty
  /\ idle_ticks' = IF "idle" \in observe /\ idle_ticks < 2
                   THEN idle_ticks + 1 ELSE idle_ticks
  /\ UNCHANGED <<dirty, note_count, error_callbacks, current_merge, lock,
                 waiters, merges, next_id, worktree, unmerged, pc, count,
                 callbacks, nerr_i, pending, apply_i, push_result, ops,
                 total_marks, snap_marks, batch, snap_cbs, cb_calls, observe,
                 textVars>>

\* Trigger with neither test of dirty made by sync_loop: a free lock is taken
\* and the cycle run
TriggerUnconditional(p) ==
  /\ pc[p] = Rest(p)
  /\ IF lock = "free" THEN RunCycle(p, waiters) ELSE Acquire(p)
  /\ UNCHANGED <<current_merge, merges, next_id, worktree, unmerged, nerr_i,
                 pending, apply_i, push_result, total_marks, cb_calls,
                 observe, textVars>>

\* a cycle is triggered: the sleep of sync_loop ends with dirty set, the
\* sleep of pull_loop ends, or push_now is called
Trigger(p) ==
  /\ pc[p] = Rest(p)
  /\ p = "sync" => dirty
  /\ Acquire(p)
  /\ UNCHANGED <<current_merge, merges, next_id, worktree, unmerged, nerr_i,
                 pending, apply_i, push_result, total_marks, cb_calls,
                 observe, textVars>>

\* a queued task is woken with the lock
Resume(p) ==
  /\ pc[p] = "lock_wait"
  /\ lock = p
  /\ Enter(p, waiters)
  /\ UNCHANGED <<current_merge, merges, next_id, worktree, unmerged, nerr_i,
                 pending, apply_i, push_result, total_marks, cb_calls,
                 observe, textVars>>

\* what no step of a running cycle touches
batchVars == <<dirty, note_count, error_callbacks, total_marks, snap_marks,
               batch, snap_cbs, idle_ticks, observe, textVars>>

Step(p, label) == Goto(p, label) /\ UNCHANGED push_result

\* Fetch with the merge left out: a fetch that succeeded ends the pull
FetchSkipsMerge(p) ==
  /\ pc[p] = "fetch"
  /\ \E r \in {"ok", "raise"} :
       /\ LogRes(p, "fetch", "", r)
       /\ PullReturn(p, r = "ok")
  /\ UNCHANGED <<batchVars, cb_calls, current_merge, merges, next_id,
                 worktree, unmerged, pending, apply_i>>

\* _run_pull: await loop.run_in_executor(None, self._dulwich_fetch)
Fetch(p) ==
  /\ pc[p] = "fetch"
  /\ \E r \in {"ok", "raise"} :
       /\ LogRes(p, "fetch", "", r)
       /\ IF r = "ok" THEN Step(p, "merge") ELSE PullReturn(p, FALSE)
  /\ UNCHANGED <<batchVars, cb_calls, current_merge, merges, next_id,
                 worktree, unmerged, pending, apply_i>>

\* _run_pull: git merge FETCH_HEAD.  "ok": return code 0; "conflict":
\* CONFLICT in its output, the tree then being one of ConflictTrees; "fail":
\* another failure; "raise": the subprocess could not be run.
Merge(p) ==
  /\ pc[p] = "merge"
  /\ \E r \in {"ok", "conflict", "fail", "raise"} :
       /\ LogRes(p, "merge", "", r)
       /\ IF r = "conflict"
          THEN /\ \E t \in ConflictTrees :
                    /\ ParseAll(t.unmerged, t.files, next_id) # <<>>
                         => Len(merges) < MaxMerges
                    /\ worktree' = t.files
                    /\ unmerged' = t.unmerged
               /\ Step(p, "hc_diff")
          ELSE /\ PullReturn(p, r = "ok")
               /\ UNCHANGED <<worktree, unmerged>>
  /\ UNCHANGED <<batchVars, cb_calls, current_merge, merges, next_id,
                 pending, apply_i>>

\* _handle_conflicts up to the call of the conflict handler: git diff
\* --name-only --diff-filter=U, the files read and parsed, the PendingMerge
\* created and stored
HandleConflicts(p) ==
  /\ pc[p] = "hc_diff"
  /\ \E r \in {"ok", "raise"} :
       /\ LogRes(p, "diff_unmerged", "", r)
       /\ IF r = "raise"
          THEN /\ PullReturn(p, FALSE)
               /\ UNCHANGED <<current_merge, merges, next_id, pending>>
          ELSE IF unmerged = <<>>
          THEN /\ Step(p, "complete")
               /\ UNCHANGED <<current_merge, merges, next_id, pending>>
          ELSE LET blocks == ParseAll(unmerged, worktree, next_id)
               IN IF blocks = <<>>
                  THEN /\ Step(p, "abort")
                       /\ UNCHANGED <<current_merge, merges, next_id, pending>>
                  ELSE /\ current_merge' = Len(merges) + 1
                       /\ pending' = [pending EXCEPT ![p] = Len(merges) + 1]
                       /\ merges' = Collect(Append(merges, NewPendingMerge(blocks)),
                                            current_merge', pending')
                       /\ next_id' = next_id + Len(blocks)
                       /\ Step(p, "notify")
  /\ UNCHANGED <<batchVars, cb_calls, worktree, unmerged, apply_i>>

\* SinkReturn with the wait made outside `async with self._lock`
SinkReturnUnlocked(p) ==
  /\ pc[p] = "notify"
  /\ pc' = [pc EXCEPT ![p] = "wait"]
  /\ ReleaseFrom(waiters)
  /\ UNCHANGED <<batchVars, cb_calls, current_merge, merges, next_id,
                 worktree, unmerged, pending, apply_i, ops, nerr_i, count,
                 callbacks, push_result>>

\* await self._on_conflict(pending) returns
SinkReturn(p) ==
  /\ pc[p] = "notify"
  /\ Step(p, "wait")
  /\ UNCHANGED <<batchVars, cb_calls, current_merge, merges, next_id,
                 worktree, unmerged, pending, apply_i, ops>>

\* await self._on_conflict(pending) raises: the exception leaves
\* _handle_conflicts and is caught by the except of _run_pull
SinkRaise(p) ==
  /\ pc[p] = "notify"
  /\ pending' = [pending EXCEPT ![p] = 0]
  /\ PullReturn(p, FALSE)
  /\ worktree' = NoFiles
  /\ unmerged' = <<>>
  /\ UNCHANGED <<batchVars, cb_calls, current_merge, merges, next_id,
                 apply_i, ops>>

\* pending.wait_for_resolution() returns True: the event is set
WaitResolved(p) ==
  /\ pc[p] = "wait"
  /\ merges[pending[p]].done
  /\ current_merge' = 0
  /\ apply_i' = 1
  /\ Log(p, "wait", "resolved")
  /\ Step(p, "apply")
  /\ UNCHANGED <<batchVars, cb_calls, merges, next_id, worktree, unmerged,
                 pending>>

\* WaitTimeout for a wait without timeout: it never returns False
WaitUnbounded(p) ==
  /\ pc[p] = "wait"
  /\ FALSE
  /\ UNCHANGED vars

\* WaitTimeout with the result of the wait not tested: the resolutions made
\* so far are applied, every other block keeping the local side
WaitTimeoutApplies(p) ==
  /\ pc[p] = "wait"
  /\ ~merges[pending[p]].done
  /\ current_merge' = 0
  /\ apply_i' = 1
  /\ Log(p, "wait", "timeout")
  /\ Step(p, "apply")
  /\ UNCHANGED <<batchVars, cb_calls, merges, next_id, worktree, unmerged,
                 pending>>

\* pending.wait_for_resolution() returns False: the timeout elapsed with the
\* event not set
WaitTimeout(p) ==
  /\ pc[p] = "wait"
  /\ ~merges[pending[p]].done
  /\ current_merge' = 0
  /\ Log(p, "wait", "timeout")
  /\ Step(p, "abort")
  /\ UNCHANGED <<batchVars, cb_calls, merges, next_id, worktree, unmerged,
                 pending, apply_i>>

\* AbortMerge with the pull going on as succeeded after the abort
AbortMergeReturnsTrue(p) ==
  /\ pc[p] = "abort"
  /\ \E r \in {"ok", "raise"} :
       /\ LogRes(p, "merge_abort", "", r)
       /\ worktree' = NoFiles
       /\ unmerged' = <<>>
  /\ pending' = [pending EXCEPT ![p] = 0]
  /\ merges' = Collect(merges, current_merge, pending')
  /\ PullReturn(p, TRUE)
  /\ UNCHANGED <<batchVars, cb_calls, current_merge, next_id, apply_i>>

\* _abort_merge, then return False
AbortMerge(p) ==
  /\ pc[p] = "abort"
  /\ \E r \in {"ok", "raise"} :
       /\ LogRes(p, "merge_abort", "", r)
       /\ worktree' = NoFiles
       /\ unmerged' = <<>>
  /\ pending' = [pending EXCEPT ![p] = 0]
  /\ merges' = Collect(merges, current_merge, pending')
  /\ PullReturn(p, FALSE)
  /\ UNCHANGED <<batchVars, cb_calls, current_merge, next_id, apply_i>>

\* one round of the loop of _apply_resolutions over by_file: the file is
\* read, rewritten and written, then git add <file>
ApplyFile(p) ==
  /\ pc[p] = "apply"
  /\ LET m == merges[pending[p]]
         order == FileOrder(m.blocks)
         f == order[apply_i]
         blocks == BlocksOf(m.blocks, f)
         res == [b \in {m.blocks[i].id : i \in 1..Len(m.blocks)} |->
                   GetResolution(m, b)]
         out == ApplyToContent(worktree[f], blocks, res)
     IN /\ IF out.ok
           THEN /\ worktree' = [worktree EXCEPT ![f] = out.content]
                /\ \E r \in {"ok", "raise"} :
                     /\ LogRes(p, "add_file", f, r)
                     /\ unmerged' = IF r = "ok"
                                    THEN SelectSeq(unmerged, LAMBDA x : x # f)
                                    ELSE unmerged
           ELSE UNCHANGED <<worktree, unmerged, ops>>
        /\ IF apply_i < Len(order)
           THEN /\ apply_i' = apply_i + 1
                /\ Step(p, "apply")
                /\ UNCHANGED pending
           ELSE /\ apply_i' = 0
                /\ pending' = [pending EXCEPT ![p] = 0]
                /\ Step(p, "complete")
  /\ merges' = Collect(merges, current_merge, pending')
  /\ UNCHANGED <<batchVars, cb_calls, current_merge, next_id>>

\* _complete_merge: git commit --no-edit.  "nothing": a failure whose message
\* holds "nothing to commit"
CompleteMerge(p) ==
  /\ pc[p] = "complete"
  /\ \E r \in {"ok", "nothing", "fail", "raise"} :
       /\ LogRes(p, "merge_commit", "", r)
       /\ PullReturn(p, r \in {"ok", "nothing"})
  /\ worktree' = NoFiles
  /\ unmerged' = <<>>
  /\ UNCHANGED <<batchVars, cb_calls, current_merge, merges, next_id,
                 pending, apply_i>>

\* StageAll without the except of _run_git: the raise leaves sync_loop, which
\* ends, the lock being released on the way out
StageAllUncaught ==
  /\ pc["sync"] = "stage"
  /\ \E r \in {"ok", "raise"} :
       /\ LogRes("sync", "stage_all", "", r)
       /\ IF r = "ok" THEN Goto("sync", "diff_cached")
          ELSE /\ pc' = [pc EXCEPT !["sync"] = "crashed"]
               /\ ReleaseFrom(waiters)
               /\ UNCHANGED <<nerr_i, count, callbacks>>
  /\ UNCHANGED <<batchVars, cb_calls, current_merge, merges, next_id,
                 worktree, unmerged, pending, apply_i, push_result>>

\* _run_git: git add -A; a raise is caught by the except of _run_git
StageAll ==
  /\ pc["sync"] = "stage"
  /\ \E r \in {"ok", "raise"} :
       /\ LogRes("sync", "stage_all", "", r)
       /\ IF r = "ok" THEN Goto("sync", "diff_cached") ELSE EndCycle("sync")
  /\ UNCHANGED <<batchVars, cb_calls, current_merge, merges, next_id,
                 worktree, unmerged, pending, apply_i, push_result>>

\* DiffCached with the return code not tested: the commit is issued also
\* when nothing is staged
DiffCachedCommitsAnyway ==
  /\ pc["sync"] = "diff_cached"
  /\ \E r \in {"clean", "staged", "raise"} :
       /\ LogRes("sync", "diff_cached", "", r)
       /\ IF r = "raise" THEN EndCycle("sync") ELSE Goto("sync", "commit")
  /\ UNCHANGED <<batchVars, cb_calls, current_merge, merges, next_id,
                 worktree, unmerged, pending, apply_i, push_result>>

\* _run_git: git diff --cached --quiet; "clean": return code 0
DiffCached ==
  /\ pc["sync"] = "diff_cached"
  /\ \E r \in {"clean", "staged", "raise"} :
       /\ LogRes("sync", "diff_cached", "", r)
       /\ IF r = "staged" THEN Goto("sync", "commit") ELSE EndCycle("sync")
  /\ UNCHANGED <<batchVars, cb_calls, current_merge, merges, next_id,
                 worktree, unmerged, pending, apply_i, push_result>>

\* _run_git: git commit -m msg
Commit ==
  /\ pc["sync"] = "commit"
  /\ \E r \in {"ok", "fail", "raise"} :
       /\ LogRes("sync", "commit", CommitMessage(count), r)
       /\ IF r = "ok" THEN Goto("sync", "push")
          ELSE IF r = "fail" THEN StartNotify("sync")
          ELSE EndCycle("sync")
  /\ UNCHANGED <<batchVars, cb_calls, current_merge, merges, next_id,
                 worktree, unmerged, pending, apply_i, push_result>>

\* await loop.run_in_executor(None, self._dulwich_push), in _run_git and in
\* push_now
Push(p) ==
  /\ pc[p] = "push"
  /\ \E r \in {"ok", "raise"} :
       /\ LogRes(p, "push", "", r)
       /\ IF p = "sync"
          THEN /\ IF r = "ok" THEN EndCycle(p) ELSE StartNotify(p)
               /\ UNCHANGED push_result
          ELSE /\ EndCycle(p)
               /\ push_result' = Returned(IF r = "ok"
                                          THEN <<TRUE, "Pushed successfully.">>
                                          ELSE <<FALSE, "Push failed">>)
  /\ UNCHANGED <<batchVars, cb_calls, current_merge, merges, next_id,
                 worktree, unmerged, pending, apply_i>>

\* one round of the loop of _notify_error: await cb(message), which returns
\* or raises (the raise is caught and logged)
NotifyError ==
  /\ pc["sync"] = "nerr"
  /\ LET cb == callbacks[nerr_i]
     IN cb_calls' = IF "callbacks" \in observe
                    THEN [cb_calls EXCEPT ![cb] = @ + 1] ELSE cb_calls
  /\ IF nerr_i < Len(callbacks)
     THEN /\ nerr_i' = nerr_i + 1
          /\ UNCHANGED <<pc, lock, waiters, count, callbacks>>
     ELSE EndCycle("sync")
  /\ UNCHANGED <<batchVars, current_merge, merges, next_id, worktree,
                 unmerged, pending, apply_i, push_result, ops>>

Next ==
  \/ \E hasCb \in BOOLEAN : MarkDirty(hasCb)
  \/ \E b \in 0..(next_id - 1), r \in Resolutions : ResolveConflictBlock(b, r)
  \/ SyncIdleTick
  \/ \E p \in Procs : Trigger(p)
  \/ \E p \in Procs : Resume(p)
  \/ \E p \in Procs : Fetch(p)
  \/ \E p \in Procs : Merge(p)
  \/ \E p \in Procs : HandleConflicts(p)
  \/ \E p \in Procs : SinkReturn(p)
  \/ \E p \in Procs : SinkRaise(p)
  \/ \E p \in Procs : WaitResolved(p)
  \/ \E p \in Procs : WaitTimeout(p)
  \/ \E p \in Procs : AbortMerge(p)
  \/ \E p \in Procs : ApplyFile(p)
  \/ \E p \in Procs : CompleteMerge(p)
  \/ StageAll
  \/ DiffCached
  \/ Commit
  \/ \E p \in {"sync", "push"} : Push(p)
  \/ NotifyError

Spec == Init /\ [][Next]_vars

\* a step of the path that holds the lock or is woken with it: every awaited
\* command, callback and sink call returns or raises, and the conflict wait
\* ends at its timeout at the latest
CycleStep ==
  \/ \E p \in Procs : Resume(p)
  \/ \E p \in Procs : Fetch(p)
  \/ \E p \in Procs : Merge(p)
  \/ \E p \in Procs : SinkReturn(p)
  \/ \E p \in Procs : SinkRaise(p)
  \/ \E p \in Procs : WaitResolved(p)
  \/ \E p \in Procs : WaitTimeout(p)
  \/ \E p \in Procs : AbortMerge(p)
  \/ \E p \in Procs : CompleteMerge(p)
  \/ StageAll
  \/ DiffCached
  \/ Commit
  \/ \E p \in {"sync", "push"} : Push(p)
  \/ NotifyError

\* the two steps that read and rewrite files, HandleConflicts and ApplyFile,
\* told by what they do to the position of the path: it leaves "hc_diff", or
\* it goes on to the next file or leaves "apply".  Both are possible wherever
\* the path stands at their position (TextStepReady), so fairness can be
\* stated on the position alone.
TextStep ==
  \E p \in Procs :
    /\ pc[p] \in {"hc_diff", "apply"}
    /\ pc' \in [Procs -> CS \cup {"sleep", "idle", "lock_wait"}]
    /\ apply_i' \in 0..Cardinality(Paths)
    /\ <<pc[p], apply_i>>' # <<pc[p], apply_i>>

\* what ApplyFile needs to take its step: the PendingMerge is still referenced
\* and the loop index names a file of by_file.  HandleConflicts needs nothing
\* (git diff returns or raises).
TextStepReady ==
  \A p \in Procs :
    pc[p] = "apply" =>
      /\ pending[p] \in DOMAIN merges
      /\ apply_i \in 1..Len(FileOrder(merges[pending[p]].blocks))

FairSpec ==
  Init /\ [][Next]_vars /\ WF_vars(CycleStep) /\ WF_<<pc, apply_i>>(TextStep)

\* FairSpec with the sleep of sync_loop ending: asyncio.sleep returns, so a
\* set dirty flag is seen at the next firing of the commit timer
FairLoops == FairSpec /\ WF_vars(Trigger("sync"))

\* the run that also records the idle firings of the commit timer
InitIdle == EngineInit /\ TextOff /\ observe = {"ops", "idle"}

SpecIdle == InitIdle /\ [][Next]_vars

\* the run that also records the outcome of every command and the
\* invocations of the error callbacks
InitResult == EngineInit /\ TextOff /\ observe = {"ops", "result", "callbacks"}

SpecResult == InitResult /\ [][Next]_vars

\* the run that also records the outcome of every command and the value
\* push_now returns
InitPush == EngineInit /\ TextOff /\ observe = {"ops", "result", "returned"}

SpecPush == InitPush /\ [][Next]_vars

\* ------------------------------------------------------ properties: engine

InCycle(p) == pc[p] \in CS

Occurrences(op) == Cardinality({i \in DOMAIN ops : ops[i].op = op})

\* C1: VCS command sequences are mutually exclusive.  At most one of
\* sync_loop, pull_loop and push_now is inside its command sequence, the one
\* that is holds the lock, and the commands issued since the lock was last
\* acquired all come from one of them: no sequence interleaves with another.
C1_MutualExclusion ==
  /\ Cardinality({p \in Procs : InCycle(p)}) <= 1
  /\ \A p \in Procs : InCycle(p) => lock = p
  /\ \A i, j \in DOMAIN ops : ops[i].p = ops[j].p

\* one path is three commands into its sequence while both others wait for
\* the lock
C1_Witness ==
  /\ InCycle("pull")
  /\ Len(ops) >= 3
  /\ pc["sync"] = "lock_wait"
  /\ pc["push"] = "lock_wait"

\* C2: the lock stays held across the conflict wait.  From the creation of
\* the PendingMerge to the return of wait_for_resolution the waiting path
\* holds the lock and no other path is inside a command sequence; while it
\* waits no command is issued and the working tree is not written.
\* mark_dirty is still served meanwhile (the witness).
C2_LockHeldDuringWait ==
  /\ [](\A p \in Procs :
          pc[p] \in {"notify", "wait"} =>
            /\ lock = p
            /\ \A q \in Procs \ {p} : ~InCycle(q))
  /\ [][(\E p \in Procs : /\ pc[p] \in {"notify", "wait"}
                          /\ pc'[p] \in {"notify", "wait"})
          => ops' = ops /\ worktree' = worktree]_vars

\* pull_loop waits for resolutions; a note was marked, the flush it asked
\* for is queued behind the lock, and so is a manual push
C2_Witness ==
  /\ pc["pull"] = "wait"
  /\ current_merge # 0
  /\ dirty /\ note_count >= 1
  /\ waiters = <<"sync", "push">>

\* C3: at most one PendingMerge is active.  A new PendingMerge is stored in
\* _current_merge only when _current_merge is None or refers to a merge all of
\* whose blocks are resolved.
C3_NoSecondActiveMerge ==
  [][(current_merge' # current_merge /\ current_merge' # 0)
       => (current_merge = 0 \/ merges[current_merge].pending_ids = {})]_vars

\* C4: snapshot and reset of the batch counters.  The mark_dirty calls made
\* since the latest snapshot are exactly the ones counted in _note_count, and
\* their callbacks the ones in _error_callbacks; dirty is set while one is
\* pending; every registered callback is in exactly one of the snapshots
\* taken and the pending list; the running attempt works on the count and
\* callbacks of its snapshot, which calls made meanwhile do not change.
C4_SnapshotAccounting ==
  /\ [](LET pend == {error_callbacks[i] : i \in DOMAIN error_callbacks}
        IN /\ note_count = total_marks - snap_marks
           /\ note_count > 0 => dirty
           /\ Cardinality(pend) = Len(error_callbacks)
           /\ pend \cap snap_cbs = {}
           /\ pend \cup snap_cbs = DOMAIN cb_calls
           /\ InCycle("sync") =>
                /\ count = batch
                /\ {callbacks[i] : i \in DOMAIN callbacks} \subseteq snap_cbs)
  /\ [][InCycle("sync") /\ InCycle("sync")'
          => count' = count /\ callbacks' = callbacks]_vars

\* the attempt for one note (with a callback) is running when a second note
\* with a callback is marked: it waits, with dirty set, for the next cycle
C4_Witness ==
  /\ InCycle("sync")
  /\ count = 1 /\ callbacks = <<1>>
  /\ dirty /\ note_count = 1 /\ error_callbacks = <<2>>

\* the commit message of the source for a batch of n notes, written out
ExpectedMessage(n) ==
  CASE n = 1 -> "telegram: add 1 note"
    [] n = 2 -> "telegram: add 2 notes"
    [] n = 3 -> "telegram: add 3 notes"
    [] OTHER -> "telegram: add " \o ToString(n) \o " notes"

\* C5: commit message.  A flush cycle runs for n >= 1 calls of mark_dirty
\* accumulated at its snapshot, and the commit it issues carries the message
\* "telegram: add n note" followed by "s" exactly when n # 1; so no commit is
\* issued for n = 0.
C5_CommitMessage ==
  /\ InCycle("sync") => batch >= 1
  /\ \A i \in DOMAIN ops :
       ops[i].op = "commit" =>
         /\ batch >= 1
         /\ ops[i].arg = ExpectedMessage(batch)

\* a commit for one note has been issued
C5_Witness ==
  \E i \in DOMAIN ops :
    /\ ops[i].op = "commit"
    /\ batch = 1
    /\ ops[i].arg = "telegram: add 1 note"

\* C6: an idle flush cycle does nothing.  When the commit timer fires with
\* dirty False (no mark_dirty since the last snapshot), sync_loop stays
\* asleep, issues no command and takes no snapshot, however often this
\* happens in a row.
C6_IdleCycleNoOp ==
  [][(pc["sync"] = "sleep" /\ ~dirty /\ ~dirty')
       => /\ pc'["sync"] = "sleep"
          /\ ops' = ops \/ ops' = <<>> \/ ops'[Len(ops')].p # "sync"
          /\ UNCHANGED <<count, callbacks, note_count, error_callbacks,
                         snap_marks, batch, snap_cbs>>]_vars

\* the timer has fired idle twice in a row after an earlier flush cycle
C6_Witness ==
  /\ idle_ticks = 2
  /\ snap_marks >= 1
  /\ pc["sync"] = "sleep" /\ ~dirty

\* C7: outcome of the conflict wait.  wait_for_resolution returns True
\* exactly when every block of the merge is resolved and False otherwise
\* (the timeout elapsed first); after a False the engine issues merge-abort
\* exactly once for the episode, and after a True it issues none.
C7_WaitOutcome ==
  /\ [](LET timed == \E i \in DOMAIN ops :
                       ops[i].op = "wait" /\ ops[i].arg = "timeout"
            resolved == \E i \in DOMAIN ops :
                          ops[i].op = "wait" /\ ops[i].arg = "resolved"
        IN /\ timed => Occurrences("merge_abort") =
                         (IF \E p \in Procs : pc[p] = "abort" THEN 0 ELSE 1)
           /\ resolved => Occurrences("merge_abort") = 0)
  /\ [][\A p \in Procs :
          (pc[p] = "wait" /\ pc'[p] # "wait") =>
            /\ pc'[p] \in {"apply", "abort"}
            /\ pc'[p] = "apply" <=> merges[pending[p]].pending_ids = {}]_vars

\* the wait of a flush cycle timed out, the merge was aborted and the cycle
\* is over
C7_Witness ==
  /\ \E i \in DOMAIN ops :
       ops[i].p = "sync" /\ ops[i].op = "wait" /\ ops[i].arg = "timeout"
  /\ Occurrences("merge_abort") = 1
  /\ lock = "free"

\* C8: resolve is safe against duplicates and unknown ids.  In every state a
\* call of resolve_conflict_block for an id that is not pending (unknown,
\* already resolved, or no merge active) returns False and changes nothing;
\* and a recorded resolution is never changed while its merge exists.
C8_ResolveRejects ==
  /\ [](\A b \in 0..next_id, r \in Resolutions :
          (current_merge = 0 \/ b \notin merges[current_merge].pending_ids)
            => ResolveResult(b, r) = [ret |-> FALSE, merges |-> merges])
  /\ [][\A m \in DOMAIN merges :
          merges'[m] # Dropped =>
            \A b \in DOMAIN merges[m].resolutions :
              /\ b \in DOMAIN merges'[m].resolutions
              /\ merges'[m].resolutions[b] = merges[m].resolutions[b]]_vars

\* the active merge has a resolved block (a second choice for it is a
\* duplicate) and a pending one
C8_Witness ==
  /\ current_merge # 0
  /\ merges[current_merge].resolutions # << >>
  /\ merges[current_merge].pending_ids # {}

\* C12 as stated: no stage and no commit operation of any kind is issued by
\* push_now, the staging of resolved files and the merge commit of the
\* conflict pipeline included.
C12_PushNowNoStageNoCommit ==
  \A i \in DOMAIN ops :
    ops[i].p = "push" =>
      ops[i].op \notin {"stage_all", "add_file", "commit", "merge_commit"}

\* C12, amended: push_now never stages all changes, never tests for staged
\* changes and never issues the batch commit: it is at none of these
\* positions and logs none of these commands.  When its pull enters the
\* conflict pipeline it stages resolved files only after the wait returned
\* True, and issues the merge commit only inside that pipeline.
C12_PushNowNoBatchCommit ==
  /\ pc["push"] \notin {"stage", "diff_cached", "commit", "nerr"}
  /\ \A i \in DOMAIN ops :
       ops[i].p = "push" =>
         /\ ops[i].op \notin {"stage_all", "diff_cached", "commit"}
         /\ ops[i].op = "add_file" =>
              \E j \in 1..(i - 1) :
                ops[j].op = "wait" /\ ops[j].arg = "resolved"
         /\ ops[i].op = "merge_commit" =>
              \E j \in 1..(i - 1) : ops[j].op = "diff_unmerged"

\* a push_now whose pull went through the conflict pipeline has staged a
\* resolved file, committed the merge and pushed
C12_Witness ==
  /\ \E i \in DOMAIN ops : ops[i].p = "push" /\ ops[i].op = "add_file"
  /\ \E i \in DOMAIN ops : ops[i].p = "push" /\ ops[i].op = "merge_commit"
  /\ \E i \in DOMAIN ops : ops[i].p = "push" /\ ops[i].op = "push"

\* the pull of the commands in o succeeded: the merge was clean, or the merge
\* commit of the conflict pipeline succeeded or found nothing to commit
PullSucceeded(o) ==
  \E i \in DOMAIN o :
    \/ o[i].op = "merge" /\ o[i].res = "ok"
    \/ o[i].op = "merge_commit" /\ o[i].res \in {"ok", "nothing"}

Pushed(o) == \E i \in DOMAIN o : o[i].op = "push"

\* C13: push_now ends with a definitive result.  On the step that ends a
\* push_now the value returned is one of the three (success, message) pairs;
\* a push was issued only if the pull of the same lock acquisition succeeded;
\* after a failed pull nothing is pushed and (False, pull failed) is returned;
\* after a failed push (False, push failed) is returned; and success is True
\* exactly when the pull succeeded and the push succeeded.
C13_PushNowResult ==
  [][(InCycle("push") /\ pc'["push"] = "idle") =>
       LET o == ops'
           r == push_result'
       IN /\ r \in {<<TRUE, "Pushed successfully.">>,
                    <<FALSE, "Git pull failed - cannot push.">>,
                    <<FALSE, "Push failed">>}
          /\ \A i \in DOMAIN o : o[i].p = "push"
          /\ Pushed(o) => PullSucceeded(o)
          /\ ~PullSucceeded(o) =>
               ~Pushed(o) /\ r = <<FALSE, "Git pull failed - cannot push.">>
          /\ (Pushed(o) /\ o[Len(o)].res = "raise") =>
               r = <<FALSE, "Push failed">>
          /\ r[1] <=> (PullSucceeded(o) /\ Pushed(o) /\ o[Len(o)].res = "ok")]_vars

\* a push_now has returned (False, push failed) after a pull that resolved a
\* conflict and a push that failed
C13_Witness ==
  /\ pc["push"] = "idle"
  /\ push_result = <<FALSE, "Push failed">>
  /\ ops # <<>> /\ ops[Len(ops)] = [p |-> "push", op |-> "push", arg |-> "",
                                    res |-> "raise"]
  /\ \E i \in DOMAIN ops : ops[i].op = "merge_commit"

\* C14: a failure of the notification sink stays out of the merge pipeline.
\* Whenever the call of the conflict handler ends, by returning or by
\* raising, the episode goes on to the resolution wait.
C14_SinkFailureContained ==
  [][\A p \in Procs :
       (pc[p] = "notify" /\ pc'[p] # "notify") => pc'[p] = "wait"]_vars

Elems(q) == {q[i] : i \in DOMAIN q}

\* C15: an error callback is invoked at most once over the run.  It is
\* invoked only if a cycle snapshotted it, a snapshotted callback is no longer
\* in _error_callbacks, and a snapshot never takes a callback an earlier
\* snapshot took.
C15_CallbackAtMostOnce ==
  /\ [](\A c \in DOMAIN cb_calls :
          /\ cb_calls[c] <= 1
          /\ cb_calls[c] = 1 => c \in snap_cbs
          /\ c \in snap_cbs => c \notin Elems(error_callbacks))
  /\ [][(callbacks' # callbacks /\ callbacks' # <<>>) =>
          /\ Elems(callbacks') \cap snap_cbs = {}
          /\ Elems(callbacks') \cap Elems(error_callbacks') = {}
          /\ Cardinality(Elems(callbacks')) = Len(callbacks')]_vars

\* the callback of the first batch was invoked by its cycle, and the cycle of
\* a second batch is running
C15_Witness ==
  /\ 1 \in DOMAIN cb_calls /\ cb_calls[1] = 1
  /\ InCycle("sync")
  /\ snap_marks = 2 /\ batch = 1

\* a step of the commands in o after the pull failed
StepFailed(o) ==
  \E i \in DOMAIN o :
    /\ o[i].op \in {"stage_all", "diff_cached", "commit", "push"}
    /\ o[i].res \in {"fail", "raise"}

\* C16: every failure of a flush cycle is relayed once to every snapshotted
\* callback.  On the step that ends a flush cycle, each callback of its
\* snapshot has been invoked once if the pull failed or a later step failed,
\* and not at all otherwise.
C16_FailureRelayed ==
  [][(InCycle("sync") /\ pc'["sync"] = "sleep") =>
       \A c \in Elems(callbacks) :
         cb_calls'[c] = (IF ~PullSucceeded(ops') \/ StepFailed(ops')
                         THEN 1 ELSE 0)]_vars

\* C17: a failed pull stops the flush cycle.  The cycle is at the staging,
\* commit or push only after its pull succeeded; and on the step that ends a
\* cycle whose pull failed no stage, commit or push was issued and every
\* snapshotted callback has been invoked once.
C17_PullFailureStopsCycle ==
  /\ [](pc["sync"] \in {"stage", "diff_cached", "commit", "push"}
          => PullSucceeded(ops))
  /\ [][(InCycle("sync") /\ pc'["sync"] = "sleep" /\ ~PullSucceeded(ops')) =>
          /\ \A i \in DOMAIN ops' :
               ops'[i].op \notin {"stage_all", "diff_cached", "commit", "push"}
          /\ \A c \in Elems(callbacks) : cb_calls'[c] = 1]_vars

\* a flush cycle with one callback has ended after its fetch failed, and the
\* callback was invoked
C17_Witness ==
  /\ pc["sync"] = "sleep"
  /\ ops = <<[p |-> "sync", op |-> "fetch", arg |-> "", res |-> "raise"]>>
  /\ 1 \in DOMAIN cb_calls /\ cb_calls[1] = 1

\* the unmerged files hold no start marker
NoMarkers ==
  \A i \in DOMAIN unmerged :
    \A k \in DOMAIN worktree[unmerged[i]] : worktree[unmerged[i]][k] # LH

C19_ReturnsToIdle ==
  lock = "free" =>
    /\ \A p \in Procs : ~InCycle(p)
    /\ current_merge = 0

\* C20: no failure ends a timer loop.  sync_loop and pull_loop are always
\* asleep, waiting for the lock or inside a cycle, and whenever one of them
\* (or a push_now) has left its rest it comes back to it, whatever the
\* outcome of the steps in between; no position of a cycle is one the path
\* cannot leave.
C20_LoopsSurvive ==
  /\ [](\A p \in {"sync", "pull"} : pc[p] \in CS \cup {"sleep", "lock_wait"})
  /\ []TextStepReady
  /\ \A p \in Procs : (pc[p] # Rest(p)) ~> (pc[p] = Rest(p))

\* after a pull cycle whose conflict wait timed out both loops sleep again
C20_Witness ==
  /\ pc["sync"] = "sleep" /\ pc["pull"] = "sleep"
  /\ lock = "free"
  /\ \E i \in DOMAIN ops :
       ops[i].p = "pull" /\ ops[i].op = "wait" /\ ops[i].arg = "timeout"

\* C21: mark_dirty never needs the lock.  It can be called in every state
\* (up to the bound on calls), the states in which a path holds the lock
\* across a conflict wait included; while a path waits, the calls made
\* accumulate in dirty, _note_count and _error_callbacks and no command is
\* issued; and every call is later covered by the snapshot of a flush cycle.
C21_MarkDirtyLockFree ==
  /\ [](total_marks < MaxNotes =>
          \A hasCb \in BOOLEAN : ENABLED MarkDirty(hasCb))
  /\ [][(\E p \in Procs : /\ pc[p] \in {"notify", "wait"}
                          /\ pc'[p] \in {"notify", "wait"})
          => /\ note_count' >= note_count
             /\ dirty => dirty'
             /\ Len(error_callbacks') >= Len(error_callbacks)
             /\ SubSeq(error_callbacks', 1, Len(error_callbacks))
                  = error_callbacks
             /\ ops' = ops]_vars
  /\ \A n \in 1..MaxNotes : (total_marks >= n) ~> (snap_marks >= n)

\* pull_loop waits for resolutions; every note of the run was marked
\* meanwhile, one with a callback, and sync_loop is queued behind the lock
C21_Witness ==
  /\ pc["pull"] = "wait"
  /\ note_count = MaxNotes
  /\ error_callbacks # <<>>
  /\ pc["sync"] = "lock_wait"

BlockIds(m) == {m.blocks[i].id : i \in 1..Len(m.blocks)}

\* C22: bookkeeping of a PendingMerge.  In every state, for every
\* PendingMerge, the keys of resolutions are block ids of that merge, and
\* the pending ids and the resolved keys are disjoint and together are all
\* its block ids.
C22_ResolutionKeys ==
  \A i \in DOMAIN merges :
    LET m == merges[i]
    IN /\ DOMAIN m.resolutions \subseteq BlockIds(m)
       /\ m.pending_ids \cap DOMAIN m.resolutions = {}
       /\ m.pending_ids \cup DOMAIN m.resolutions = BlockIds(m)

\* a merge of two blocks has one block resolved each way
C22_Witness ==
  \E i \in DOMAIN merges :
    LET m == merges[i]
    IN /\ Len(m.blocks) = 2
       /\ m.pending_ids = {}
       /\ {m.resolutions[b] : b \in DOMAIN m.resolutions} = Resolutions

\* C23: the completion signal.  For every PendingMerge that is still
\* referenced the event is set exactly when no id is pending; a new
\* PendingMerge starts with it unset; once set it stays set; and it becomes
\* set only by the accepted resolve_conflict_block call that takes the last
\* pending id, so never by a rejected one.
C23_DoneSignal ==
  /\ [](\A i \in DOMAIN merges :
          merges[i] # Dropped =>
            (merges[i].done <=> merges[i].pending_ids = {}))
  /\ [][\A i \in DOMAIN merges' :
          /\ i \notin DOMAIN merges => ~merges'[i].done
          /\ (i \in DOMAIN merges /\ merges[i].done /\ merges'[i] # Dropped)
               => merges'[i].done
          /\ (i \in DOMAIN merges /\ ~merges[i].done /\ merges'[i].done)
               => /\ i = current_merge
                  /\ \E b \in merges[i].pending_ids, r \in Resolutions :
                       /\ merges[i].pending_ids = {b}
                       /\ ResolveResult(b, r).ret
                       /\ merges' = ResolveResult(b, r).merges
                       /\ UNCHANGED <<pc, lock, ops, current_merge>>]_vars

\* the last block of the merge push_now waits on has been resolved, and
\* the wait has not returned yet
C23_Witness ==
  /\ pc["push"] = "wait"
  /\ current_merge # 0
  /\ merges[current_merge].done
  /\ Len(merges[current_merge].blocks) = 2

\* C24: resolution timeout.  Once the wait of an attempt has timed out, the
\* attempt issues nothing but git merge --abort: no file is rewritten or
\* staged, no merge commit, no stage-all, commit or push (the pull has
\* failed), so the resolutions recorded so far are never applied; the
\* PendingMerge is no longer the current merge, and when the abort is done
\* no reference to it is left.
C24_TimeoutDiscards ==
  /\ [](\A i \in DOMAIN ops :
          (ops[i].op = "wait" /\ ops[i].arg = "timeout") =>
            /\ \A j \in DOMAIN ops :
                 /\ ops[j].op \notin {"add_file", "merge_commit", "stage_all",
                                      "diff_cached", "commit", "push"}
                 /\ j > i => ops[j].op = "merge_abort"
            /\ current_merge = 0
            /\ pc[ops[i].p] \in {"abort", "nerr", "lock_wait", Rest(ops[i].p)}
            /\ pc[ops[i].p] # "abort" =>
                 /\ Occurrences("merge_abort") = 1
                 /\ pending[ops[i].p] = 0)
  /\ [][\A p \in Procs :
          (pc[p] = "wait" /\ pc'[p] = "abort") =>
            /\ worktree' = worktree
            /\ merges' = merges
            /\ current_merge' = 0]_vars
  /\ [][\A p \in Procs :
          (pc[p] = "abort" /\ pc'[p] # "abort" /\ pending[p] # 0) =>
            merges'[pending[p]] = Dropped]_vars

\* the wait of push_now timed out with one of two blocks resolved; the
\* abort is about to be issued
C24_Witness ==
  /\ pc["push"] = "abort"
  /\ pending["push"] # 0
  /\ merges[pending["push"]].resolutions # << >>
  /\ merges[pending["push"]].pending_ids # {}
  /\ \E i \in DOMAIN ops : ops[i].op = "wait" /\ ops[i].arg = "timeout"

\* the place of a logged operation in the sequence of a critical section
Rank(op) ==
  CASE op = "fetch" -> 1
    [] op = "merge" -> 2
    [] op = "diff_unmerged" -> 3
    [] op = "wait" -> 4
    [] op \in {"merge_abort", "add_file"} -> 5
    [] op = "merge_commit" -> 6
    [] op = "stage_all" -> 7
    [] op = "diff_cached" -> 8
    [] op = "commit" -> 9
    [] op = "push" -> 10

Before(i) == SubSeq(ops, 1, i - 1)

\* C25: the operations of one critical section are strictly sequential.
\* The log of the section starts with the fetch and goes on in the order
\* fetch, merge, conflict pipeline (unmerged listing, wait, abort or
\* per-file staging, merge commit), stage-all, staged test, commit, push,
\* no operation twice but the per-file staging; the merge follows a fetch
\* that succeeded; stage-all and push are issued only after the pull of the
\* section succeeded; and the batch commit only after that and after a
\* stage-all that succeeded and found something staged.
C25_StrictOrder ==
  /\ ops # <<>> => ops[1].op = "fetch"
  /\ \A i \in DOMAIN ops :
       /\ i > 1 =>
            \/ Rank(ops[i - 1].op) < Rank(ops[i].op)
            \/ ops[i - 1].op = "add_file" /\ ops[i].op = "add_file"
       /\ ops[i].op = "merge" =>
            ops[i - 1].op = "fetch" /\ ops[i - 1].res = "ok"
       /\ ops[i].op \in {"stage_all", "push"} => PullSucceeded(Before(i))
       /\ ops[i].op = "commit" =>
            /\ PullSucceeded(Before(i))
            /\ ops[i - 2].op = "stage_all" /\ ops[i - 2].res = "ok"
            /\ ops[i - 1].op = "diff_cached" /\ ops[i - 1].res = "staged"
       /\ (ops[i].op = "push" /\ ops[i].p = "sync") =>
            ops[i - 1].op = "commit" /\ ops[i - 1].res = "ok"

\* a flush cycle has gone through every stage: conflict, both files
\* rewritten and staged, merge commit, stage-all, commit and push
C25_Witness ==
  /\ Cardinality({i \in DOMAIN ops : ops[i].op = "add_file"}) = 2
  /\ \E i \in DOMAIN ops : ops[i].op = "merge_commit"
  /\ \E i \in DOMAIN ops : ops[i].op = "push" /\ ops[i].p = "sync"

\* C26: nothing staged, the flush cycle stops silently.  A staged test that
\* finds nothing is made only after the pull succeeded and is the last
\* operation of its cycle: the step that makes it ends the cycle with the
\* lock released, no commit and no push issued and no callback of the
\* snapshot invoked.
C26_NothingStagedSilent ==
  /\ [](\A i \in DOMAIN ops :
          (ops[i].op = "diff_cached" /\ ops[i].res = "clean") =>
            /\ i = Len(ops)
            /\ PullSucceeded(ops)
            /\ ~InCycle("sync"))
  /\ [][(/\ pc["sync"] = "diff_cached"
         /\ ops' # ops
         /\ ops'[Len(ops')].res = "clean") =>
          /\ pc'["sync"] = "sleep"
          /\ lock' # "sync"
          /\ \A i \in DOMAIN ops' : ops'[i].op \notin {"commit", "push"}
          /\ cb_calls' = cb_calls
          /\ \A c \in Elems(callbacks) : cb_calls'[c] = 0]_vars

\* a flush cycle with a callback has ended at a staged test that found
\* nothing; the callback was not invoked
C26_Witness ==
  /\ ops # <<>>
  /\ ops[Len(ops)].op = "diff_cached" /\ ops[Len(ops)].res = "clean"
  /\ snap_cbs # {}
  /\ \A c \in snap_cbs : cb_calls[c] = 0

\* the files that have a conflict block of merge m
FilesOf(m) == {m.blocks[i].file_path : i \in 1..Len(m.blocks)}

\* C27: the merge commit comes after every file is rewritten and staged.
\* When the loop of _apply_resolutions is left for _complete_merge, every
\* file that has a conflict block has been written without markers and
\* staged by a git add that succeeded; and the pull succeeds exactly when
\* the finalizing commit ends ok or with "nothing to commit".
C27_CommitAfterAllStaged ==
  /\ [][\A p \in Procs :
          (pc[p] = "apply" /\ pc'[p] = "complete") =>
            \A f \in FilesOf(merges[pending[p]]) :
              /\ FindIter(worktree'[f], TRUE) = <<>>
              /\ \E k \in DOMAIN ops' :
                   /\ ops'[k].op = "add_file"
                   /\ ops'[k].arg = f
                   /\ ops'[k].res = "ok"]_vars
  /\ [][\A p \in {"sync", "push"} :
          (pc[p] = "complete" /\ pc'[p] # "complete") =>
            (pc'[p] \in {"stage", "push"}
               <=> ops'[Len(ops')].res \in {"ok", "nothing"})]_vars

\* C28: a failed pull discards the snapshot of the flush cycle.  _note_count
\* and dirty always stand for the mark_dirty calls made since the latest
\* snapshot; the step that ends a flush cycle whose pull failed drops the
\* count and callbacks of the snapshot and leaves dirty, _note_count and
\* _error_callbacks as they are, none of the dropped callbacks being
\* registered again; and a commit carries the count of its own snapshot.
C28_FailedBatchDiscarded ==
  /\ [](/\ note_count = total_marks - snap_marks
        /\ dirty <=> note_count > 0)
  /\ [][(InCycle("sync") /\ pc'["sync"] = "sleep" /\ ~PullSucceeded(ops')) =>
          /\ count' = 0 /\ callbacks' = <<>>
          /\ UNCHANGED <<dirty, note_count, error_callbacks>>
          /\ Elems(error_callbacks') \cap Elems(callbacks) = {}]_vars
  /\ [](\A i \in DOMAIN ops :
          ops[i].op = "commit" => ops[i].arg = CommitMessage(batch))

\* the flush cycle for the first note ended at a fetch that failed and its
\* callback was invoked; a second note, marked meanwhile, is all that is
\* pending
C28_Witness ==
  /\ pc["sync"] = "sleep"
  /\ ops = <<[p |-> "sync", op |-> "fetch", arg |-> "", res |-> "raise"]>>
  /\ snap_marks = 1 /\ total_marks = 2
  /\ dirty /\ note_count = 1
  /\ 1 \in DOMAIN cb_calls /\ cb_calls[1] = 1

\* a step of path p: its position changes, or it goes on to the next file
StepOf(p) ==
  pc'[p] # pc[p] \/ (pc[p] = "apply" /\ lock = p /\ apply_i' # apply_i)

\* C29: only the flush cycle consumes the batch state.  No step of pull_loop
\* or of push_now changes dirty, _note_count or _error_callbacks, takes a
\* snapshot or invokes an error callback, whatever the outcome of its
\* commands and of a conflict episode; neither path is ever at the
\* notification of errors.
C29_OnlyFlushConsumes ==
  /\ [](pc["pull"] # "nerr" /\ pc["push"] # "nerr")
  /\ [][(StepOf("pull") \/ StepOf("push")) =>
          UNCHANGED <<dirty, note_count, error_callbacks, cb_calls,
                      snap_marks, snap_cbs, count, callbacks>>]_vars

\* a push_now has gone through a conflict episode and pushed while every
\* note of the run was pending, one with a callback that was not invoked
C29_Witness ==
  /\ pc["push"] = "idle"
  /\ \E i \in DOMAIN ops : ops[i].op = "wait" /\ ops[i].arg = "resolved"
  /\ ops # <<>> /\ ops[Len(ops)].p = "push" /\ ops[Len(ops)].op = "push"
  /\ dirty /\ note_count = MaxNotes
  /\ error_callbacks # <<>>
  /\ \A c \in DOMAIN cb_calls : cb_calls[c] = 0

\* C30: the lock is never held forever.  A path at the conflict wait can
\* always leave it, by completion or by the timeout; every path that holds
\* the lock gives it up; and every path queued for the lock gets it.
C30_LockReleased ==
  /\ [](\A p \in Procs :
          pc[p] = "wait" => ENABLED (WaitResolved(p) \/ WaitTimeout(p)))
  /\ \A p \in Procs : (lock = p) ~> (lock # p)
  /\ \A p \in Procs : (pc[p] = "lock_wait") ~> (lock = p)

\* the wait of pull_loop timed out, the merge was aborted, and the lock was
\* handed to push_now, which was queued for it and has not run yet
C30_Witness ==
  /\ lock = "push"
  /\ pc["push"] = "lock_wait"
  /\ pc["pull"] = "sleep"
  /\ \E i \in DOMAIN ops :
       ops[i].p = "pull" /\ ops[i].op = "wait" /\ ops[i].arg = "timeout"
  /\ ops[Len(ops)].op = "merge_abort"

\* C31: dirty and the counters agree.  In every state dirty is True exactly
\* when _note_count is positive, and _error_callbacks holds at most
\* _note_count callbacks; so a flush cycle, which runs only past the test of
\* dirty, works on a count of at least 1 and on no more callbacks than that.
C31_DirtyIffCounted ==
  /\ dirty <=> note_count > 0
  /\ Len(error_callbacks) <= note_count
  /\ InCycle("sync") => (count >= 1 /\ Len(callbacks) <= count)

\* a flush cycle runs for two notes of which one came with a callback
C31_Witness ==
  /\ InCycle("sync")
  /\ count = 2
  /\ Len(callbacks) = 1

\* the content of a file of the first tree of ConflictTrees after its block
\* was replaced by the side chosen
Resolved(r) ==
  <<"a", NL>> \o (IF r = "current" THEN <<"a", NL>> ELSE <<"b", NL>>)
    \o <<"b", NL>>

\* C32: choices made while the conflict handler runs are kept.  While the
\* handler runs the new PendingMerge is the current merge and every pending
\* id is accepted; a merge that has choices recorded leaves the handler
\* only for the wait, with the choices as they are; a wait on a merge whose
\* blocks are all resolved can only return True; and the file is then
\* written with the side chosen for its block.
C32_EarlyResolutionsKept ==
  /\ [](\A p \in Procs :
          pc[p] = "notify" =>
            /\ current_merge = pending[p]
            /\ \A b \in merges[pending[p]].pending_ids, r \in Resolutions :
                 ResolveResult(b, r).ret)
  /\ [][\A p \in Procs :
          (pc[p] = "notify" /\ merges[pending[p]].resolutions # << >>) =>
            /\ pc'[p] \in {"notify", "wait"}
            /\ pending'[p] = pending[p]
            /\ \A b \in DOMAIN merges[pending[p]].resolutions :
                 /\ b \in DOMAIN merges'[pending[p]].resolutions
                 /\ merges'[pending[p]].resolutions[b]
                      = merges[pending[p]].resolutions[b]]_vars
  /\ [](\A p \in Procs :
          (pc[p] = "wait" /\ merges[pending[p]].pending_ids = {}) =>
            ENABLED WaitResolved(p) /\ ~ENABLED WaitTimeout(p))
  /\ [][\A p \in Procs :
          (pc[p] = "apply" /\ StepOf(p)) =>
            LET m == merges[pending[p]]
                f == FileOrder(m.blocks)[apply_i]
                b == BlocksOf(m.blocks, f)[1]
            IN worktree'[f] = Resolved(GetResolution(m, b.id))]_vars

\* no path stands between the creation of a PendingMerge and the return of
\* its wait
NoActiveMerge == \A p \in Procs : pc[p] \notin {"notify", "wait"}

\* C33: without an active merge every choice is rejected.  Whenever no
\* conflict episode is under way (before any conflict, after an episode was
\* completed, timed out or failed) resolve_conflict_block returns False for
\* every id and changes nothing; so while the files are rewritten the
\* choices of the merge being applied do not change.
C33_NoActiveMergeRejects ==
  /\ [](NoActiveMerge =>
          \A b \in 0..next_id, r \in Resolutions :
            ResolveResult(b, r) = [ret |-> FALSE, merges |-> merges])
  /\ [][\A p \in Procs :
          (pc[p] = "apply" /\ pc'[p] = "apply") =>
            merges'[pending[p]].resolutions
              = merges[pending[p]].resolutions]_vars

\* ---------------------------------------------------------- text harness
\* _parse_conflicts and _apply_resolutions applied to one file as git merge
\* writes it: k conflict regions, each with the text of the local side and
\* of the remote side, separated by unchanged text.

MaxBlocks == 2

Underline == <<EQ, EQ, NL>>   \* the line "==============": a heading underline

SideTexts == {<<>>, <<"a", NL>>, <<"b", NL>>, Underline}
CtxTexts == {<<>>, <<"c", NL>>}

RECURSIVE Interleave(_, _, _)
\* ctx, piece 1, ctx, ..., piece n, ctx
Interleave(ctx, pieces, n) ==
  IF n = 0 THEN ctx
  ELSE Interleave(ctx, pieces, n - 1) \o pieces[n] \o ctx

\* the file with conflict markers, as git merge leaves it
MergedFile(ctx, sides) ==
  Interleave(ctx, [i \in 1..Len(sides) |-> Blk(sides[i].local, sides[i].remote)],
             Len(sides))

\* the file before the merge: every region holds its local (remote) text
LocalFile(ctx, sides) ==
  Interleave(ctx, [i \in 1..Len(sides) |-> sides[i].local], Len(sides))
RemoteFile(ctx, sides) ==
  Interleave(ctx, [i \in 1..Len(sides) |-> sides[i].remote], Len(sides))

Sides == {sd \in [local : SideTexts, remote : SideTexts] : sd.local # sd.remote}

TextInit ==
  /\ EngineInit
  /\ observe = {}
  /\ t_phase = "merged"
  /\ t_ctx \in CtxTexts
  /\ \E k \in 1..MaxBlocks : t_sides \in [1..k -> Sides]
  /\ t_content = MergedFile(t_ctx, t_sides)
  /\ t_blocks = <<>>
  /\ t_res = <<>>
  /\ t_out = <<>>

\* blocks = self._parse_conflicts(content, file_path)
TextParse ==
  /\ t_phase = "merged"
  /\ t_phase' = "parsed"
  /\ t_blocks' = ParseConflicts(t_content, "n1.md", 1)
  /\ UNCHANGED <<engineVars, t_ctx, t_sides, t_content, t_res, t_out>>

\* every block is resolved as res says, then _apply_resolutions rewrites the
\* file
TextApply ==
  /\ t_phase = "parsed"
  /\ t_phase' = "applied"
  /\ \E res \in [{t_blocks[i].id : i \in 1..Len(t_blocks)} -> Resolutions] :
       /\ t_res' = res
       /\ t_out' = ApplyToContent(t_content, t_blocks, res).content
  /\ UNCHANGED <<engineVars, t_ctx, t_sides, t_content, t_blocks>>

TextNext == TextParse \/ TextApply

SpecText == TextInit /\ [][TextNext]_vars

\* ------------------------------------------------------- properties: text

AllResolved(r) ==
  /\ t_phase = "applied"
  /\ \A i \in DOMAIN t_blocks : t_res[t_blocks[i].id] = r

\* C9: parse/apply round trip.  For a file with k >= 1 conflict regions,
\* resolving every parsed block as "current" and applying gives the local
\* text of the file, and resolving every block as "incoming" gives the remote
\* text.
C9_RoundTrip ==
  /\ AllResolved("current") => t_out = LocalFile(t_ctx, t_sides)
  /\ AllResolved("incoming") => t_out = RemoteFile(t_ctx, t_sides)

\* C10: mixed resolution.  For any assignment of "current"/"incoming" to the
\* blocks, one block is parsed per region and the applied file is the
\* unchanged text with every region replaced by the chosen side of its own
\* block.
C10_MixedResolution ==
  t_phase = "applied" =>
    /\ Len(t_blocks) = Len(t_sides)
    /\ t_out = Interleave(t_ctx,
                          [i \in 1..Len(t_sides) |->
                             IF t_res[t_blocks[i].id] = "current"
                             THEN t_sides[i].local ELSE t_sides[i].remote],
                          Len(t_sides))

\* C11: parsing well-formed blocks.  For a file with k conflict regions as
\* git merge writes them, _parse_conflicts returns k blocks, the i-th with
\* block_index i - 1, the local text of the i-th region as current and its
\* remote text as incoming.
C11_ParseBlocks ==
  t_phase \in {"parsed", "applied"} =>
    /\ Len(t_blocks) = Len(t_sides)
    /\ \A i \in DOMAIN t_blocks :
         /\ t_blocks[i].block_index = i - 1
         /\ t_blocks[i].current = t_sides[i].local
         /\ t_blocks[i].incoming = t_sides[i].remote

====
